---- MODULE Spec2Model ----
(***************************************************************************)
(* Model of the scrcpy-restream network adapters:                          *)
(*   app/src/tcp_sink.c           the video packet sink                     *)
(*   app/src/control_forwarder.c  the control forwarder                     *)
(*                                                                         *)
(* Threads are interleaved at their accesses to shared memory and at their *)
(* socket calls.  A critical section that touches only mutex-protected     *)
(* data is one step; push, which holds the mutex while it frees and        *)
(* replaces config_packet (a field the worker also reads without the       *)
(* mutex), is split at those accesses.                                     *)
(*                                                                         *)
(* 64-bit words are kept as four 16-bit limbs <<l0, l1, l2, l3>>, l0 the   *)
(* least significant, so that no intermediate value leaves TLC's integer   *)
(* range.                                                                  *)
(*                                                                         *)
(* Environment assumptions: av_packet_alloc/av_packet_ref succeed (memory  *)
(* exhaustion is not an input of this model); the upstream pipeline calls  *)
(* open, push and close from one thread, and does not call open again      *)
(* after an open that succeeded.  A socket call on a handle that was       *)
(* closed fails; every close of a handle is counted, and the reuse of a    *)
(* descriptor number by the process after a close is not modelled.         *)
(***************************************************************************)
EXTENDS Integers, Sequences, FiniteSets, TLC

\* ------------------------------------------------------------------ bounds
MaxPush == 2
MaxClients == 2
MaxFailedOpen == 1
MaxStop == 1

\* --------------------------------------------------------------- constants
SC_SOCKET_NONE == 0
SC_CODEC_ID_H264 == 1748121140
SC_CODEC_ID_H265 == 1748121141
NULL == 0

\* ------------------------------------------------------- 64-bit arithmetic
RECURSIVE BitOr(_, _, _)
BitOr(a, b, n) ==
    IF n = 0 THEN 0
    ELSE (IF a % 2 = 1 \/ b % 2 = 1 THEN 1 ELSE 0)
         + 2 * BitOr(a \div 2, b \div 2, n - 1)

\* x | y on 64-bit words
Or64(x, y) == [i \in 1..4 |-> BitOr(x[i], y[i], 16)]

\* bit k (0..63) of a 64-bit word
Bit(x, k) == (x[(k \div 16) + 1] \div (2 ^ (k % 16))) % 2

\* INT64_MIN, the "no timestamp" sentinel of libavutil
AV_NOPTS_VALUE == <<0, 0, 0, 32768>>
SC_PACKET_FLAG_CONFIG == <<0, 0, 0, 32768>>
SC_PACKET_FLAG_KEY_FRAME == <<0, 0, 0, 16384>>

\* util/binary.h: big-endian stores
sc_write32be(v) ==
    <<(v \div 16777216) % 256, (v \div 65536) % 256, (v \div 256) % 256, v % 256>>

sc_write64be(x) ==
    <<x[4] \div 256, x[4] % 256, x[3] \div 256, x[3] % 256,
      x[2] \div 256, x[2] % 256, x[1] \div 256, x[1] % 256>>

\* -------------------------------------------------------------- packets
\* An AVPacket: pts (int64 as limbs), the AV_PKT_FLAG_KEY bit of flags, and
\* data (size is Len(data)).
Pkt(pts, key, data) == [pts |-> pts, key |-> key, data |-> data]

\* pts_flags as sc_tcp_sink_send_packet builds it, with a keyframe flag that
\* is also applied to packets without a timestamp (a plausible slip)
PtsFlagsKeyOnConfig(packet) ==
    IF packet.key THEN Or64(IF packet.pts = AV_NOPTS_VALUE
                            THEN SC_PACKET_FLAG_CONFIG ELSE packet.pts,
                            SC_PACKET_FLAG_KEY_FRAME)
    ELSE IF packet.pts = AV_NOPTS_VALUE THEN SC_PACKET_FLAG_CONFIG
    ELSE packet.pts

\* pts_flags as sc_tcp_sink_send_packet builds it, the keyframe flag dropped
PtsFlagsNoKey(packet) ==
    IF packet.pts = AV_NOPTS_VALUE THEN SC_PACKET_FLAG_CONFIG ELSE packet.pts

\* the local pts_flags of sc_tcp_sink_send_packet
PtsFlags(packet) ==
    IF packet.pts = AV_NOPTS_VALUE
    THEN SC_PACKET_FLAG_CONFIG
    ELSE IF packet.key
         THEN Or64(packet.pts, SC_PACKET_FLAG_KEY_FRAME)
         ELSE packet.pts

\* the 12-byte header sc_tcp_sink_send_packet writes
PacketHeader(packet) ==
    sc_write64be(PtsFlags(packet)) \o sc_write32be(Len(packet.data))

\* the 12 bytes sc_tcp_sink_send_codec_info writes
CodecHeader(codec) ==
    sc_write32be(codec.id) \o sc_write32be(codec.w) \o sc_write32be(codec.h)

\* ---- reading a frame header back, as a client does
\* bit k (0..63) of the big-endian 64-bit field in bytes 1..8
HdrBit(hdr, k) == (hdr[8 - (k \div 8)] \div (2 ^ (k % 8))) % 2
\* the 32-bit length field in bytes 9..12
HdrLen(hdr) == ((hdr[9] * 256 + hdr[10]) * 256 + hdr[11]) * 256 + hdr[12]


\* ------------------------------------------------------------------ state
VARIABLES
    \* struct sc_tcp_sink
    server_socket, client_socket, stopped, codec_sent, codec, queue,
    config_packet,
    \* sc_mutex / sc_cond of the sink: who holds the mutex across steps, and
    \* whether the worker is blocked in sc_cond_wait
    mutex, waiting,
    \* packet copies made by sc_tcp_sink_packet_ref, by handle 1..Len(heap)
    heap,
    \* run_tcp_sink: position and locals
    wpc, acc, config_pkt, packet,
    \* upstream thread: position inside push, its argument, call counters and
    \* the value the last push returned
    ppc, parg, npush, nfailopen, ret,
    \* owner thread: position inside stop, completed stops, lifecycle
    spc, nstop, life,
    \* kernel side: listening socket, backlog, accepted connections, state
    \* of the current connection and what was written to it
    srv, pending, nconn, conn, wire,
    \* history
    pushedSince, lastCfg, cfgAtAccept, cfgSeen, okOpen,
    \* framing of a single packet (specification SpecFrame)
    fpkt, fwire,
    \* struct sc_control_forwarder: server_socket, client_socket, stopped
    forwarder,
    \* run_control_forwarder: position, the value net_accept returned, the
    \* bytes of buffer that net_recv filled
    fpc, facc, buffer,
    \* the thread that owns the forwarder: position inside stop, completed
    \* stops, lifecycle
    fspc, fnstop, flife,
    \* kernel side of the forwarder: its listening socket, the backlog, the
    \* accepted connections by handle, the state of the control socket
    fsrv, fpending, fcli, ctl,
    \* bytes written to controller->control_socket, whether a downstream
    \* send was cut short
    downstream, sendFailed

sinkv == <<server_socket, client_socket, stopped, codec_sent, codec, queue,
           config_packet>>
syncv == <<mutex, waiting>>
workv == <<wpc, acc, config_pkt, packet>>
upv == <<ppc, parg, npush, nfailopen, ret>>
mainv == <<spc, nstop, life>>
envv == <<srv, pending, nconn, conn, wire>>
histv == <<pushedSince, lastCfg, cfgAtAccept, cfgSeen, okOpen>>
framev == <<fpkt, fwire>>
fwdv == <<forwarder, fpc, facc, buffer, fspc, fnstop, flife, fsrv, fpending,
          fcli, ctl, downstream, sendFailed>>
vars == <<sinkv, syncv, heap, workv, upv, mainv, envv, histv, framev,
          fwdv>>

NoPkt == [pts |-> <<0, 0, 0, 0>>, key |-> FALSE, data |-> <<255, 255>>]
NoOpen == [id |-> 0, w |-> 0, h |-> 0]
NoCtx == [codec_id |-> "none", width |-> 0, height |-> 0]
NoConn == [open |-> FALSE, stalled |-> FALSE, broken |-> FALSE, intr |-> FALSE]
NewConn == [open |-> TRUE, stalled |-> FALSE, broken |-> FALSE, intr |-> FALSE]

\* timestamps 1000 and 2000 as int64
Pts(n) == <<n, 0, 0, 0>>

CfgA == Pkt(AV_NOPTS_VALUE, FALSE, <<103>>)
CfgB == Pkt(AV_NOPTS_VALUE, FALSE, <<104, 1>>)
KeyF == Pkt(Pts(1000), TRUE, <<101>>)
Frm0 == Pkt(Pts(2000), FALSE, <<>>)
\* the packets upstream pushes
PushPackets == {CfgA, CfgB, KeyF, Frm0}

\* what a read of a freed packet may yield
JunkPkt == Pkt(<<65535, 65535, 65535, 65535>>, TRUE, <<0>>)
Garbage == PushPackets \cup {JunkPkt}

\* the codec contexts upstream opens with
Contexts == {[codec_id |-> c, width |-> 1280, height |-> 720] :
             c \in {"H264", "HEVC", "MPEG4"}}

SinkInit ==
    /\ server_socket = SC_SOCKET_NONE
    /\ client_socket = SC_SOCKET_NONE
    /\ stopped = FALSE
    /\ codec_sent = FALSE
    /\ codec = NoOpen
    /\ queue = <<>>
    /\ config_packet = NULL
    /\ mutex = "free"
    /\ waiting = FALSE
    /\ heap = <<>>
    /\ wpc = "off"
    /\ acc = SC_SOCKET_NONE
    /\ config_pkt = NULL
    /\ packet = NULL
    /\ ppc = "idle"
    /\ parg = NoPkt
    /\ npush = 0
    /\ nfailopen = 0
    /\ ret = "none"
    /\ spc = "idle"
    /\ nstop = 0
    /\ life = "init"
    /\ srv = "none"
    /\ pending = FALSE
    /\ nconn = 0
    /\ conn = NoConn
    /\ wire = <<>>
    /\ pushedSince = <<>>
    /\ lastCfg = NoPkt
    /\ cfgAtAccept = NoPkt
    /\ cfgSeen = {}
    /\ okOpen = NoCtx

FrameIdle ==
    /\ fpkt = NoPkt
    /\ fwire = <<>>

\* sc_control_forwarder_init; the worker not yet created
FwdInit ==
    /\ forwarder = [server_socket |-> SC_SOCKET_NONE,
                    client_socket |-> SC_SOCKET_NONE,
                    stopped |-> FALSE]
    /\ fpc = "off"
    /\ facc = SC_SOCKET_NONE
    /\ buffer = <<>>
    /\ fspc = "idle"
    /\ fnstop = 0
    /\ flife = "init"
    /\ fsrv = [state |-> "none", closes |-> 0]
    /\ fpending = FALSE
    /\ fcli = <<>>
    /\ ctl = "ok"
    /\ downstream = <<>>
    /\ sendFailed = FALSE

Init == SinkInit /\ FrameIdle /\ FwdInit


\* ------------------------------------------------------------ heap, wire
\* sc_tcp_sink_packet_ref: a new owned copy of packet p, made by push number n
sc_tcp_sink_packet_ref(hp, p, n) ==
    Append(hp, [p |-> p, frees |-> 0, seq |-> n])

\* av_packet_free of handle h
av_packet_free(hp, h) == [hp EXCEPT ![h].frees = @ + 1]

\* sc_tcp_sink_queue_clear that pops the packets without freeing them
QueueClearLeaks(hp, q) == hp

\* sc_tcp_sink_queue_clear: every queued handle is popped and freed
sc_tcp_sink_queue_clear(hp, q) ==
    [h \in DOMAIN hp |->
        [hp[h] EXCEPT !.frees = @ + Cardinality({i \in DOMAIN q : q[i] = h})]]

\* what the bytes behind handle h read as: the packet while the copy is live,
\* anything once it has been freed
Deref(h) == IF heap[h].frees = 0 THEN {heap[h].p} ELSE Garbage

\* the frame sc_tcp_sink_send_packet writes for packet p: header, then data
sc_tcp_sink_send_packet(p, via, n) ==
    [via |-> via, hdr |-> PacketHeader(p), data |-> p.data, seq |-> n,
     full |-> TRUE]

\* the same when the second net_send_all fails: the header alone
HeaderOnly(p, via, n) ==
    [via |-> via, hdr |-> PacketHeader(p), data |-> <<>>, seq |-> n,
     full |-> FALSE]

\* the frame sc_tcp_sink_send_codec_info writes
sc_tcp_sink_send_codec_info(c) ==
    [via |-> "codec", hdr |-> CodecHeader(c), data |-> <<>>, seq |-> 0,
     full |-> TRUE]

\* net_send_all on the client socket returns success / returns an error;
\* otherwise (the client does not read and nobody interrupted) it blocks
CanSend == conn.open /\ ~conn.stalled /\ ~conn.broken /\ ~conn.intr
SendFails == ~conn.open \/ conn.broken \/ conn.intr

\* net_close(sink->client_socket); sink->client_socket = SC_SOCKET_NONE
CloseClient ==
    /\ client_socket' = SC_SOCKET_NONE
    /\ conn' = NoConn

\* ------------------------------------------------------------ owner thread
\* sc_tcp_sink_start: sc_thread_create succeeds or fails
Start ==
    /\ life = "init"
    /\ \/ life' = "started" /\ wpc' = "socket"
       \/ life' = "startfailed" /\ wpc' = wpc
    /\ UNCHANGED <<sinkv, syncv, heap, acc, config_pkt, packet, upv, spc,
                   nstop, envv, histv, framev, fwdv>>

\* sc_tcp_sink_stop, lines 376-379
Stop1 ==
    /\ life = "started"
    /\ spc = "idle"
    /\ nstop < MaxStop
    /\ mutex = "free"
    /\ stopped' = TRUE
    /\ waiting' = FALSE
    /\ spc' = "s2"
    /\ UNCHANGED <<server_socket, client_socket, codec_sent, codec, queue,
                   config_packet, mutex, heap, workv, upv, nstop, life, envv,
                   histv, framev, fwdv>>

\* sc_tcp_sink_stop, lines 382-384: net_interrupt wakes a blocked accept
Stop2 ==
    /\ spc = "s2"
    /\ srv' = IF server_socket # SC_SOCKET_NONE /\ srv = "listening"
              THEN "intr" ELSE srv
    /\ spc' = "s3"
    /\ UNCHANGED <<sinkv, syncv, heap, workv, upv, nstop, life, pending,
                   nconn, conn, wire, histv, framev, fwdv>>

\* the test of line 387
StopSeesClient(cs) == cs # SC_SOCKET_NONE

\* sc_tcp_sink_stop, lines 387-389: net_interrupt fails a blocked send
Stop3 ==
    /\ spc = "s3"
    /\ conn' = IF StopSeesClient(client_socket) /\ conn.open
               THEN [conn EXCEPT !.intr = TRUE] ELSE conn
    /\ spc' = "idle"
    /\ nstop' = nstop + 1
    /\ UNCHANGED <<sinkv, syncv, heap, workv, upv, life, srv, pending, nconn,
                   wire, histv, framev, fwdv>>

\* sc_tcp_sink_join: returns once run_tcp_sink has returned
Join ==
    /\ life = "started"
    /\ spc = "idle"
    /\ nstop > 0
    /\ wpc = "done"
    /\ life' = "joined"
    /\ UNCHANGED <<sinkv, syncv, heap, workv, upv, spc, nstop, envv, histv,
                   framev, fwdv>>

\* sc_tcp_sink_destroy, called once no other thread uses the sink
Destroy ==
    /\ life \in {"joined", "startfailed"}
    /\ ppc = "idle"
    /\ LET cleared == sc_tcp_sink_queue_clear(heap, queue)
       IN heap' = IF config_packet # NULL
                  THEN av_packet_free(cleared, config_packet)
                  ELSE cleared
    /\ queue' = <<>>
    /\ config_packet' = NULL
    /\ life' = "destroyed"
    /\ UNCHANGED <<server_socket, client_socket, stopped, codec_sent, codec,
                   syncv, workv, upv, spc, nstop, envv, histv, framev, fwdv>>


\* --------------------------------------------------------- upstream thread
\* the switch of sc_tcp_sink_packet_sink_open with a default that falls back
\* to H.264 instead of failing
CodecTagDefaultsToH264(codec_id) ==
    IF codec_id = "HEVC" THEN SC_CODEC_ID_H265 ELSE SC_CODEC_ID_H264

\* the switch of sc_tcp_sink_packet_sink_open: the tag, 0 for the default case
CodecTag(codec_id) ==
    CASE codec_id = "H264" -> SC_CODEC_ID_H264
      [] codec_id = "HEVC" -> SC_CODEC_ID_H265
      [] OTHER -> 0

\* sc_tcp_sink_packet_sink_open: its return value and the fields it leaves
sc_tcp_sink_packet_sink_open(ctx) ==
    LET tag == CodecTag(ctx.codec_id)
    IN IF tag = 0
       THEN [ok |-> FALSE, codec |-> codec, codec_sent |-> codec_sent]
       ELSE [ok |-> TRUE,
             codec |-> [id |-> tag, w |-> ctx.width, h |-> ctx.height],
             codec_sent |-> TRUE]

UpstreamAttached == life \in {"started", "joined"}

Open ==
    /\ UpstreamAttached
    /\ ppc = "idle"
    /\ mutex = "free"
    /\ okOpen = NoCtx
    /\ \E ctx \in Contexts :
          LET r == sc_tcp_sink_packet_sink_open(ctx)
          IN /\ r.ok \/ nfailopen < MaxFailedOpen
             /\ codec' = r.codec
             /\ codec_sent' = r.codec_sent
             /\ waiting' = IF r.ok THEN FALSE ELSE waiting
             /\ okOpen' = IF r.ok THEN ctx ELSE okOpen
             /\ nfailopen' = IF r.ok THEN nfailopen ELSE nfailopen + 1
    /\ UNCHANGED <<server_socket, client_socket, stopped, queue,
                   config_packet, mutex, heap, workv, ppc, parg, npush, ret,
                   mainv, envv, pushedSince, lastCfg, cfgAtAccept, cfgSeen,
                   framev, fwdv>>

\* sc_tcp_sink_packet_sink_close
Close ==
    /\ UpstreamAttached
    /\ ppc = "idle"
    /\ mutex = "free"
    /\ stopped' = TRUE
    /\ waiting' = FALSE
    /\ UNCHANGED <<server_socket, client_socket, codec_sent, codec, queue,
                   config_packet, mutex, heap, workv, upv, mainv, envv, histv,
                   framev, fwdv>>

\* the test of line 287 never taken
PushRefusedNever(s) == FALSE

\* the test of line 287
PushRefused(s) == s

\* the test of line 303 never taken: every packet is queued
PushDropsNever(cs) == FALSE

\* the test of line 303
PushDrops(cs) == cs = SC_SOCKET_NONE

\* sc_tcp_sink_packet_sink_push, lines 302-327, for packet p of push number
\* n, hp being the heap after the cache step
PushTail(p, n, hp) ==
    /\ IF PushDrops(client_socket)
       THEN /\ heap' = hp
            /\ queue' = queue
            /\ waiting' = waiting
       ELSE /\ heap' = sc_tcp_sink_packet_ref(hp, p, n)
            /\ queue' = Append(queue, Len(hp) + 1)
            /\ waiting' = FALSE
    /\ ret' = "true"
    /\ pushedSince' = Append(pushedSince, [n |-> n, p |-> p])

\* sc_tcp_sink_packet_sink_push, lines 285-300 up to the av_packet_free of the
\* cached packet; a packet with a timestamp runs to the end of push
PushBegin ==
    /\ UpstreamAttached
    /\ ppc = "idle"
    /\ mutex = "free"
    /\ npush < MaxPush
    /\ npush' = npush + 1
    /\ \E p \in PushPackets :
          IF PushRefused(stopped)
          THEN /\ ret' = "false"
               /\ UNCHANGED <<queue, config_packet, mutex, waiting, heap, ppc,
                              parg, pushedSince>>
          ELSE IF p.pts = AV_NOPTS_VALUE
          THEN /\ mutex' = "push"
               /\ ppc' = "ref"
               /\ parg' = p
               /\ heap' = IF config_packet # NULL
                          THEN av_packet_free(heap, config_packet)
                          ELSE heap
               /\ config_packet' = NULL
               /\ UNCHANGED <<queue, waiting, ret, pushedSince>>
          ELSE /\ PushTail(p, npush + 1, heap)
               /\ UNCHANGED <<config_packet, mutex, ppc, parg>>
    /\ UNCHANGED <<server_socket, client_socket, stopped, codec_sent, codec,
                   workv, nfailopen, mainv, envv, lastCfg, cfgAtAccept,
                   cfgSeen, okOpen, framev, fwdv>>

\* line 298: sink->config_packet = sc_tcp_sink_packet_ref(packet)
PushRef ==
    /\ ppc = "ref"
    /\ heap' = sc_tcp_sink_packet_ref(heap, parg, 0)
    /\ config_packet' = Len(heap) + 1
    /\ cfgSeen' = cfgSeen \cup {parg}
    /\ ppc' = "enq"
    /\ UNCHANGED <<server_socket, client_socket, stopped, codec_sent, codec,
                   queue, syncv, workv, parg, npush, nfailopen, ret, mainv,
                   envv, pushedSince, lastCfg, cfgAtAccept, okOpen, framev,
                   fwdv>>

\* lines 302-327 for a packet without timestamp
PushEnq ==
    /\ ppc = "enq"
    /\ PushTail(parg, npush, heap)
    /\ mutex' = "free"
    /\ ppc' = "idle"
    /\ parg' = NoPkt
    /\ lastCfg' = parg
    /\ UNCHANGED <<server_socket, client_socket, stopped, codec_sent, codec,
                   config_packet, workv, npush, nfailopen, mainv, envv,
                   cfgAtAccept, cfgSeen, okOpen, framev, fwdv>>


\* ------------------------------------------------------------ run_tcp_sink
\* lines 103-107: net_socket
WSocket ==
    /\ wpc = "socket"
    /\ \/ /\ server_socket' = 1
          /\ srv' = "open"
          /\ wpc' = "listen"
       \/ /\ server_socket' = SC_SOCKET_NONE
          /\ srv' = srv
          /\ wpc' = "done"
    /\ UNCHANGED <<client_socket, stopped, codec_sent, codec, queue,
                   config_packet, syncv, heap, acc, config_pkt, packet, upv,
                   mainv, pending, nconn, conn, wire, histv, framev, fwdv>>

\* lines 110-114: net_listen; on failure the socket is closed, the field kept
WListen ==
    /\ wpc = "listen"
    /\ \/ srv' = "listening" /\ wpc' = "loop"
       \/ srv' = "closed" /\ wpc' = "done"
    /\ UNCHANGED <<sinkv, syncv, heap, acc, config_pkt, packet, upv, mainv,
                   pending, nconn, conn, wire, histv, framev, fwdv>>

\* line 118: while (!sink->stopped)
WLoop ==
    /\ wpc = "loop"
    /\ wpc' = IF stopped THEN "cleanup" ELSE "accept"
    /\ UNCHANGED <<sinkv, syncv, heap, acc, config_pkt, packet, upv, mainv,
                   envv, histv, framev, fwdv>>

\* line 120: net_accept returns a connection of the backlog
WAccept ==
    /\ wpc = "accept"
    /\ srv = "listening"
    /\ pending
    /\ pending' = FALSE
    /\ nconn' = nconn + 1
    /\ acc' = nconn + 1
    /\ conn' = NewConn
    /\ wire' = <<>>
    /\ wpc' = "assign"
    /\ UNCHANGED <<sinkv, syncv, heap, config_pkt, packet, upv, mainv, srv,
                   histv, framev, fwdv>>

\* lines 120-127: net_accept returns SC_SOCKET_NONE because the listening
\* socket was interrupted or closed
WAcceptInterrupted ==
    /\ wpc = "accept"
    /\ srv \in {"intr", "closed"}
    /\ wpc' = IF stopped THEN "cleanup" ELSE "loop"
    /\ UNCHANGED <<sinkv, syncv, heap, acc, config_pkt, packet, upv, mainv,
                   envv, histv, framev, fwdv>>

\* lines 120-127: net_accept fails on its own (the peer aborted, no
\* descriptor left)
WAcceptError ==
    /\ wpc = "accept"
    /\ srv = "listening"
    /\ wpc' = IF stopped THEN "cleanup" ELSE "loop"
    /\ UNCHANGED <<sinkv, syncv, heap, acc, config_pkt, packet, upv, mainv,
                   envv, histv, framev, fwdv>>

\* line 120: the store to sink->client_socket
WAssign ==
    /\ wpc = "assign"
    /\ client_socket' = acc
    /\ wpc' = "rdcodec"
    /\ pushedSince' = <<>>
    /\ cfgAtAccept' = lastCfg
    /\ UNCHANGED <<server_socket, stopped, codec_sent, codec, queue,
                   config_packet, syncv, heap, acc, config_pkt, packet, upv,
                   mainv, envv, lastCfg, cfgSeen, okOpen, framev, fwdv>>

\* lines 132-136
WReadCodec ==
    /\ wpc = "rdcodec"
    /\ mutex = "free"
    /\ wpc' = IF codec_sent THEN "hdrA" ELSE "waitcodec"
    /\ UNCHANGED <<sinkv, syncv, heap, acc, config_pkt, packet, upv, mainv,
                   envv, histv, framev, fwdv>>

\* lines 160-164: wait for the codec
WWaitCodec ==
    /\ wpc = "waitcodec"
    /\ mutex = "free"
    /\ ~waiting
    /\ IF ~codec_sent /\ ~stopped
       THEN waiting' = TRUE /\ wpc' = wpc
       ELSE waiting' = waiting /\ wpc' = "chkstop"
    /\ UNCHANGED <<sinkv, mutex, heap, acc, config_pkt, packet, upv, mainv,
                   envv, histv, framev, fwdv>>

\* lines 166-170
WCheckStop ==
    /\ wpc = "chkstop"
    /\ IF stopped
       THEN CloseClient /\ wpc' = "cleanup"
       ELSE UNCHANGED <<client_socket, conn>> /\ wpc' = "hdrB"
    /\ UNCHANGED <<server_socket, stopped, codec_sent, codec, queue,
                   config_packet, syncv, heap, acc, config_pkt, packet, upv,
                   mainv, srv, pending, nconn, wire, histv, framev, fwdv>>

\* lines 137-142 and 172-177: sc_tcp_sink_send_codec_info.  These 12 bytes are
\* the first written on the connection, whose buffers are empty: the send
\* does not block, it succeeds or fails.
WSendCodec ==
    /\ wpc \in {"hdrA", "hdrB"}
    /\ \/ /\ ~SendFails
          /\ wire' = Append(wire, sc_tcp_sink_send_codec_info(codec))
          /\ wpc' = IF wpc = "hdrA" THEN "rdcfgA" ELSE "rdcfgB"
          /\ UNCHANGED <<client_socket, conn>>
       \/ /\ SendFails
          /\ CloseClient
          /\ wire' = wire
          /\ wpc' = "loop"
    /\ UNCHANGED <<server_socket, stopped, codec_sent, codec, queue,
                   config_packet, syncv, heap, acc, config_pkt, packet, upv,
                   mainv, srv, pending, nconn, histv, framev, fwdv>>

\* lines 145-149: config_packet read under the mutex
WReadConfigLocked ==
    /\ wpc = "rdcfgA"
    /\ mutex = "free"
    /\ config_pkt' = config_packet
    /\ wpc' = IF config_packet # NULL THEN "sendcfg" ELSE "serve"
    /\ UNCHANGED <<sinkv, syncv, heap, acc, packet, upv, mainv, envv, histv,
                   framev, fwdv>>

\* lines 180-181: config_packet read without the mutex
WReadConfig ==
    /\ wpc = "rdcfgB"
    /\ config_pkt' = config_packet
    /\ wpc' = IF config_packet # NULL THEN "sendcfg" ELSE "serve"
    /\ UNCHANGED <<sinkv, syncv, heap, acc, packet, upv, mainv, envv, histv,
                   framev, fwdv>>

\* lines 150-156 and 182-188: the cached packet is sent through the local
\* handle config_pkt
WSendConfig ==
    /\ wpc = "sendcfg"
    /\ \E p \in Deref(config_pkt) :
          \/ /\ CanSend
             /\ wire' = Append(wire, sc_tcp_sink_send_packet(p, "cache", 0))
             /\ wpc' = "serve"
             /\ UNCHANGED <<client_socket, conn>>
          \/ /\ SendFails
             /\ CloseClient
             /\ wire' \in {wire, Append(wire, HeaderOnly(p, "cache", 0))}
             /\ wpc' = "loop"
    /\ config_pkt' = NULL
    /\ UNCHANGED <<server_socket, stopped, codec_sent, codec, queue,
                   config_packet, syncv, heap, acc, packet, upv, mainv, srv,
                   pending, nconn, histv, framev, fwdv>>

\* line 194: while (client_connected && !sink->stopped)
WServe ==
    /\ wpc = "serve"
    /\ wpc' = IF stopped THEN "closecli" ELSE "lockq"
    /\ UNCHANGED <<sinkv, syncv, heap, acc, config_pkt, packet, upv, mainv,
                   envv, histv, framev, fwdv>>

\* lines 195-207
WDequeue ==
    /\ wpc = "lockq"
    /\ mutex = "free"
    /\ ~waiting
    /\ IF queue = <<>> /\ ~stopped
       THEN /\ waiting' = TRUE
            /\ UNCHANGED <<wpc, queue, packet>>
       ELSE IF stopped
       THEN /\ wpc' = "closecli"
            /\ UNCHANGED <<waiting, queue, packet>>
       ELSE /\ packet' = Head(queue)
            /\ queue' = Tail(queue)
            /\ wpc' = "sendpkt"
            /\ waiting' = waiting
    /\ UNCHANGED <<server_socket, client_socket, stopped, codec_sent, codec,
                   config_packet, mutex, heap, acc, config_pkt, upv, mainv,
                   envv, histv, framev, fwdv>>

\* lines 209-214: send the dequeued packet, then free it
WSendPacket ==
    /\ wpc = "sendpkt"
    /\ \E p \in Deref(packet) :
          \/ /\ CanSend
             /\ wire' = Append(wire, sc_tcp_sink_send_packet(
                                         p, "queue", heap[packet].seq))
             /\ wpc' = "serve"
          \/ /\ SendFails
             /\ wire' \in {wire, Append(wire, HeaderOnly(
                                         p, "queue", heap[packet].seq))}
             /\ wpc' = "closecli"
    /\ heap' = av_packet_free(heap, packet)
    /\ packet' = NULL
    /\ UNCHANGED <<sinkv, syncv, acc, config_pkt, upv, mainv, srv, pending,
                   nconn, conn, histv, framev, fwdv>>

\* lines 218-221
WCloseClient ==
    /\ wpc = "closecli"
    /\ IF client_socket # SC_SOCKET_NONE
       THEN CloseClient
       ELSE UNCHANGED <<client_socket, conn>>
    /\ wpc' = "loop"
    /\ UNCHANGED <<server_socket, stopped, codec_sent, codec, queue,
                   config_packet, syncv, heap, acc, config_pkt, packet, upv,
                   mainv, srv, pending, nconn, wire, histv, framev, fwdv>>

\* lines 225-227
WCleanup ==
    /\ wpc = "cleanup"
    /\ mutex = "free"
    /\ heap' = sc_tcp_sink_queue_clear(heap, queue)
    /\ queue' = <<>>
    /\ wpc' = "closesrv"
    /\ UNCHANGED <<server_socket, client_socket, stopped, codec_sent, codec,
                   config_packet, syncv, acc, config_pkt, packet, upv, mainv,
                   envv, histv, framev, fwdv>>

\* lines 229-235
WCloseServer ==
    /\ wpc = "closesrv"
    /\ IF server_socket # SC_SOCKET_NONE
       THEN server_socket' = SC_SOCKET_NONE /\ srv' = "closed"
       ELSE UNCHANGED <<server_socket, srv>>
    /\ wpc' = "done"
    /\ UNCHANGED <<client_socket, stopped, codec_sent, codec, queue,
                   config_packet, syncv, heap, acc, config_pkt, packet, upv,
                   mainv, pending, nconn, conn, wire, histv, framev, fwdv>>

\* ------------------------------------------------------------ environment
\* a client connects to the listening port
ClientConnect ==
    /\ srv = "listening"
    /\ ~pending
    /\ nconn < MaxClients
    /\ pending' = TRUE
    /\ UNCHANGED <<sinkv, syncv, heap, workv, upv, mainv, srv, nconn, conn,
                   wire, histv, framev, fwdv>>

\* the connected client stops reading and the socket buffers are full
ClientStall ==
    /\ conn.open
    /\ ~conn.stalled
    /\ conn' = [conn EXCEPT !.stalled = TRUE]
    /\ UNCHANGED <<sinkv, syncv, heap, workv, upv, mainv, srv, pending, nconn,
                   wire, histv, framev, fwdv>>

\* the connected client closes or resets the connection
ClientBreak ==
    /\ conn.open
    /\ ~conn.broken
    /\ conn' = [conn EXCEPT !.broken = TRUE]
    /\ UNCHANGED <<sinkv, syncv, heap, workv, upv, mainv, srv, pending, nconn,
                   wire, histv, framev, fwdv>>

\* sc_cond_wait returns without a signal
SpuriousWakeup ==
    /\ waiting
    /\ waiting' = FALSE
    /\ UNCHANGED <<sinkv, mutex, heap, workv, upv, mainv, envv, histv,
                   framev, fwdv>>

\* ---------------------------------------------------------- specification
Worker ==
    \/ WSocket \/ WListen \/ WLoop \/ WAccept \/ WAcceptInterrupted
    \/ WAssign \/ WReadCodec \/ WWaitCodec \/ WCheckStop \/ WSendCodec
    \/ WReadConfigLocked \/ WReadConfig \/ WSendConfig \/ WServe
    \/ WDequeue \/ WSendPacket \/ WCloseClient \/ WCleanup \/ WCloseServer

Owner == Start \/ Stop1 \/ Stop2 \/ Stop3 \/ Join \/ Destroy

Upstream == Open \/ Close \/ PushBegin \/ PushRef \/ PushEnq

Environment ==
    ClientConnect \/ ClientStall \/ ClientBreak \/ SpuriousWakeup
    \/ WAcceptError

Next == Worker \/ Owner \/ Upstream \/ Environment

Spec == Init /\ [][Next]_vars

\* threads that can run do run; clients and upstream calls are not forced
FairSpec ==
    /\ Spec
    /\ WF_vars(Worker)
    /\ WF_vars(Stop2 \/ Stop3)
    /\ WF_vars(PushRef \/ PushEnq)


\* ------------------------------------------- framing of a single packet
FramePts ==
    {<<l0, l1, l2, l3>> : l0 \in {0, 1000, 65535}, l1 \in {0, 1},
                          l2 \in {0, 65535},
                          l3 \in {0, 1, 16383, 16384, 32767, 32768, 49152,
                                  65535}}
FrameData == {<<>>, <<101>>, <<1, 2, 3>>, [i \in 1..300 |-> 7]}
FramePackets ==
    {Pkt(t, k, d) : t \in FramePts, k \in BOOLEAN, d \in FrameData}

\* the bytes sc_tcp_sink_send_packet puts on the socket for one packet
FrameSend ==
    /\ fwire = <<>>
    /\ \E p \in FramePackets :
          LET f == sc_tcp_sink_send_packet(p, "queue", 0)
          IN /\ fpkt' = p
             /\ fwire' = f.hdr \o f.data
    /\ UNCHANGED <<sinkv, syncv, heap, workv, upv, mainv, envv, histv,
                   fwdv>>

\* the capture is emptied for the next packet
FrameNext ==
    /\ fwire # <<>>
    /\ fpkt' = NoPkt
    /\ fwire' = <<>>
    /\ UNCHANGED <<sinkv, syncv, heap, workv, upv, mainv, envv, histv,
                   fwdv>>

SpecFrame == Init /\ [][FrameSend \/ FrameNext]_vars

\* ===================================================== control forwarder
\* ------------------------------------------------------------------ bounds
MaxFwdClients == 2
MaxFwdWrites == 3
MaxFwdStop == 2

SC_CONTROL_MSG_MAX_SIZE == 256

sinkside == <<sinkv, syncv, heap, workv, upv, mainv, envv, histv, framev>>
fwkv == <<fpc, facc, buffer>>
fownv == <<fspc, fnstop, flife>>
fkernv == <<fsrv, fpending, fcli, ctl>>
fhistv == <<downstream, sendFailed>>

Min(a, b) == IF a <= b THEN a ELSE b

\* an accepted connection: how often the forwarder closed its handle, the
\* state of the peer, the bytes the peer wrote that no net_recv returned yet,
\* and the number of messages the peer wrote
NewClient == [closes |-> 0, peer |-> "up", inbox |-> <<>>, nw |-> 0]

\* the i-th message of client k: a short control message, then one longer
\* than the forwarder's buffer, and so on
ShortMsg(k, i) == <<4, 0, 0, k, i>>
LongMsg(k, i) == [j \in 1..260 |-> (j + 10 * k + i) % 256]
Msg(k, i) == IF i % 2 = 1 THEN ShortMsg(k, i) ELSE LongMsg(k, i)

\* net_close on a socket (util/net.h): the handle is closed once more; a
\* thread blocked in accept or recv on it returns with an error
net_close(s) == [s EXCEPT !.closes = @ + 1]

\* ------------------------------------------------------------ owner thread
\* sc_control_forwarder_start: sc_thread_create succeeds or fails
FStart ==
    /\ flife = "init"
    /\ \/ flife' = "started" /\ fpc' = "socket"
       \/ flife' = "startfailed" /\ fpc' = fpc
    /\ UNCHANGED <<forwarder, facc, buffer, fspc, fnstop, fkernv, fhistv,
                   sinkside>>

\* sc_control_forwarder_stop, lines 122-124
FStop1 ==
    /\ flife = "started"
    /\ fspc = "idle"
    /\ fnstop < MaxFwdStop
    /\ forwarder' = [forwarder EXCEPT !.stopped = TRUE]
    /\ fspc' = "s2"
    /\ UNCHANGED <<fwkv, fnstop, flife, fkernv, fhistv, sinkside>>

\* the tests of lines 127 and 132
FStopCloses(s) == s # SC_SOCKET_NONE

\* sc_control_forwarder_stop, lines 127-129
FStop2 ==
    /\ fspc = "s2"
    /\ fsrv' = IF FStopCloses(forwarder.server_socket)
               THEN [net_close(fsrv) EXCEPT !.state = "closed"]
               ELSE fsrv
    /\ fspc' = "s3"
    /\ UNCHANGED <<forwarder, fwkv, fnstop, flife, fpending, fcli, ctl,
                   fhistv, sinkside>>

\* sc_control_forwarder_stop, lines 132-134
FStop3 ==
    /\ fspc = "s3"
    /\ fcli' = IF FStopCloses(forwarder.client_socket)
               THEN [fcli EXCEPT ![forwarder.client_socket] = net_close(@)]
               ELSE fcli
    /\ fspc' = "idle"
    /\ fnstop' = fnstop + 1
    /\ UNCHANGED <<forwarder, fwkv, flife, fsrv, fpending, ctl, fhistv,
                   sinkside>>

\* sc_control_forwarder_join: returns once run_control_forwarder returned
FJoin ==
    /\ flife = "started"
    /\ fspc = "idle"
    /\ fnstop > 0
    /\ fpc = "done"
    /\ flife' = "joined"
    /\ UNCHANGED <<forwarder, fwkv, fspc, fnstop, fkernv, fhistv, sinkside>>

\* sc_control_forwarder_destroy
FDestroy ==
    /\ flife \in {"joined", "startfailed"}
    /\ flife' = "destroyed"
    /\ UNCHANGED <<forwarder, fwkv, fspc, fnstop, fkernv, fhistv, sinkside>>

\* --------------------------------------------------- run_control_forwarder
\* lines 16-20: net_socket
FSocket ==
    /\ fpc = "socket"
    /\ \/ /\ forwarder' = [forwarder EXCEPT !.server_socket = 1]
          /\ fsrv' = [fsrv EXCEPT !.state = "open"]
          /\ fpc' = "listen"
       \/ /\ forwarder' = [forwarder EXCEPT !.server_socket = SC_SOCKET_NONE]
          /\ fsrv' = fsrv
          /\ fpc' = "done"
    /\ UNCHANGED <<facc, buffer, fownv, fpending, fcli, ctl, fhistv,
                   sinkside>>

\* lines 23-27: net_listen, which fails on a handle that stop has closed; on
\* failure the socket is closed, the field kept
FListen ==
    /\ fpc = "listen"
    /\ \/ /\ fsrv.state = "open"
          /\ fsrv' = [fsrv EXCEPT !.state = "listening"]
          /\ fpc' = "loop"
       \/ /\ fsrv' = [net_close(fsrv) EXCEPT !.state = "closed"]
          /\ fpc' = "done"
    /\ UNCHANGED <<forwarder, facc, buffer, fownv, fpending, fcli, ctl,
                   fhistv, sinkside>>

\* line 31: while (!forwarder->stopped)
FLoop ==
    /\ fpc = "loop"
    /\ fpc' = IF forwarder.stopped THEN "cleanup" ELSE "accept"
    /\ UNCHANGED <<forwarder, facc, buffer, fownv, fkernv, fhistv, sinkside>>

\* line 33: net_accept returns a connection of the backlog
FAccept ==
    /\ fpc = "accept"
    /\ fsrv.state = "listening"
    /\ fpending
    /\ fpending' = FALSE
    /\ fcli' = Append(fcli, NewClient)
    /\ facc' = Len(fcli) + 1
    /\ fpc' = "assign"
    /\ UNCHANGED <<forwarder, buffer, fownv, fsrv, ctl, fhistv, sinkside>>

\* line 33: net_accept returns SC_SOCKET_NONE because the listening socket
\* was closed
FAcceptClosed ==
    /\ fpc = "accept"
    /\ fsrv.state = "closed"
    /\ facc' = SC_SOCKET_NONE
    /\ fpc' = "assign"
    /\ UNCHANGED <<forwarder, buffer, fownv, fkernv, fhistv, sinkside>>

\* line 33: net_accept fails on its own
FAcceptError ==
    /\ fpc = "accept"
    /\ fsrv.state = "listening"
    /\ facc' = SC_SOCKET_NONE
    /\ fpc' = "assign"
    /\ UNCHANGED <<forwarder, buffer, fownv, fkernv, fhistv, sinkside>>

\* lines 33-40: the store to forwarder->client_socket and the tests on it
FAssign ==
    /\ fpc = "assign"
    /\ forwarder' = [forwarder EXCEPT !.client_socket = facc]
    /\ fpc' = IF facc # SC_SOCKET_NONE THEN "inner"
              ELSE IF forwarder.stopped THEN "cleanup"
              ELSE "loop"
    /\ UNCHANGED <<facc, buffer, fownv, fkernv, fhistv, sinkside>>

\* line 48: while (client_connected && !forwarder->stopped)
FInner ==
    /\ fpc = "inner"
    /\ fpc' = IF forwarder.stopped THEN "teardown" ELSE "recv"
    /\ UNCHANGED <<forwarder, facc, buffer, fownv, fkernv, fhistv, sinkside>>

\* the number of bytes net_recv returns when inbox is available: all of it,
\* at most sizeof(buffer)
RecvSize(inbox) == Min(Len(inbox), SC_CONTROL_MSG_MAX_SIZE)

\* lines 51-61: net_recv on the client socket
FRecv ==
    /\ fpc = "recv"
    /\ LET c == forwarder.client_socket
       IN IF fcli[c].closes = 0 /\ fcli[c].inbox # <<>>
          THEN LET n == RecvSize(fcli[c].inbox)
               IN /\ buffer' = SubSeq(fcli[c].inbox, 1, n)
                  /\ fcli' = [fcli EXCEPT ![c].inbox =
                                 SubSeq(@, n + 1, Len(@))]
                  /\ fpc' = "send"
          ELSE /\ fcli[c].closes > 0 \/ fcli[c].peer # "up"
               /\ fpc' = "teardown"
               /\ UNCHANGED <<buffer, fcli>>
    /\ UNCHANGED <<forwarder, facc, fownv, fsrv, fpending, ctl, fhistv,
                   sinkside>>

\* net_send_all that reports success one byte early
SendAllButLast(buf) == SubSeq(buf, 1, Len(buf) - 1)

\* what net_send_all of buf puts on the control socket when it succeeds
SendAll(buf) == buf

\* lines 64-70: net_send_all to controller->control_socket returns r, or
\* less after a short write; it blocks while the downstream does not read
FSend ==
    /\ fpc = "send"
    /\ \/ /\ ctl = "ok"
          /\ downstream' = downstream \o SendAll(buffer)
          /\ sendFailed' = sendFailed
          /\ fpc' = "inner"
       \/ /\ ctl = "broken"
          /\ downstream' \in {downstream, downstream \o <<buffer[1]>>}
          /\ sendFailed' = TRUE
          /\ fpc' = "teardown"
    /\ buffer' = <<>>
    /\ UNCHANGED <<forwarder, facc, fownv, fkernv, sinkside>>

\* the test of line 74 never taken: the client is left open
TeardownClosesNever(cs) == FALSE

\* the test of line 74
TeardownCloses(cs) == cs # SC_SOCKET_NONE

\* lines 74-77
FTeardown ==
    /\ fpc = "teardown"
    /\ IF TeardownCloses(forwarder.client_socket)
       THEN /\ fcli' = [fcli EXCEPT ![forwarder.client_socket] = net_close(@)]
            /\ forwarder' = [forwarder EXCEPT
                                !.client_socket = SC_SOCKET_NONE]
       ELSE UNCHANGED <<fcli, forwarder>>
    /\ fpc' = "loop"
    /\ UNCHANGED <<facc, buffer, fownv, fsrv, fpending, ctl, fhistv,
                   sinkside>>

\* lines 81-87
FCleanup ==
    /\ fpc = "cleanup"
    /\ IF forwarder.server_socket # SC_SOCKET_NONE
       THEN /\ fsrv' = [net_close(fsrv) EXCEPT !.state = "closed"]
            /\ forwarder' = [forwarder EXCEPT
                                !.server_socket = SC_SOCKET_NONE]
       ELSE UNCHANGED <<fsrv, forwarder>>
    /\ fpc' = "done"
    /\ UNCHANGED <<facc, buffer, fownv, fpending, fcli, ctl, fhistv,
                   sinkside>>

\* ------------------------------------------- environment of the forwarder
\* a control producer connects to the listening port
FClientConnect ==
    /\ fsrv.state = "listening"
    /\ ~fpending
    /\ Len(fcli) < MaxFwdClients
    /\ fpending' = TRUE
    /\ UNCHANGED <<forwarder, fwkv, fownv, fsrv, fcli, ctl, fhistv,
                   sinkside>>

\* the number of messages clients 1..k have written
RECURSIVE WritesUpTo(_)
WritesUpTo(k) == IF k = 0 THEN 0 ELSE WritesUpTo(k - 1) + fcli[k].nw

\* the connected producer writes a message
FClientWrite ==
    /\ fcli # <<>>
    /\ WritesUpTo(Len(fcli)) < MaxFwdWrites
    /\ LET k == Len(fcli)
       IN /\ fcli[k].peer = "up"
          /\ fcli[k].closes = 0
          /\ LET m == Msg(k, fcli[k].nw + 1)
             IN fcli' = [fcli EXCEPT ![k].inbox = @ \o m,
                                     ![k].nw = @ + 1]
    /\ UNCHANGED <<forwarder, fwkv, fownv, fsrv, fpending, ctl, fhistv,
                   sinkside>>

\* the connected producer closes its end
FClientClose ==
    /\ fcli # <<>>
    /\ fcli[Len(fcli)].peer = "up"
    /\ fcli[Len(fcli)].closes = 0
    /\ fcli' = [fcli EXCEPT ![Len(fcli)].peer = "eof"]
    /\ UNCHANGED <<forwarder, fwkv, fownv, fsrv, fpending, ctl, fhistv,
                   sinkside>>

\* the device stops reading the control socket, or the control socket fails
FControlSocket ==
    /\ ctl = "ok"
    /\ flife = "started"
    /\ ctl' \in {"stalled", "broken"}
    /\ UNCHANGED <<forwarder, fwkv, fownv, fsrv, fpending, fcli, fhistv,
                   sinkside>>

\* ---------------------------------------------------------- specification
FWorker ==
    \/ FSocket \/ FListen \/ FLoop \/ FAccept \/ FAcceptClosed \/ FAssign
    \/ FInner \/ FRecv \/ FSend \/ FTeardown \/ FCleanup

FOwner == FStart \/ FStop1 \/ FStop2 \/ FStop3 \/ FJoin \/ FDestroy

FEnvironment ==
    FClientConnect \/ FClientWrite \/ FClientClose \/ FControlSocket
    \/ FAcceptError

FwdNext == FWorker \/ FOwner \/ FEnvironment

SpecFwd == Init /\ [][FwdNext]_vars

\* threads that can run do run; clients and the downstream are not forced
FairFwd ==
    /\ SpecFwd
    /\ WF_vars(FWorker)
    /\ WF_vars(FStop2 \/ FStop3)


\* ------------------------------------------------- the two components
\* The sink and the forwarder share no state; a behaviour of this
\* specification exercises one of them from the initial state.
SinkStep == flife = "init" /\ Next
FwdStep == life = "init" /\ FwdNext
SpecEither == Init /\ [][SinkStep \/ FwdStep]_vars

\* ------------------------------------------------------------------ claims
StopCalled == spc # "idle" \/ nstop > 0
WorkerDone == wpc = "done"

\* C4: after sc_tcp_sink_stop has been called on a started sink, the worker
\* thread eventually terminates, whatever it was doing and however stop
\* interleaves with the worker's accept and its store to client_socket.
C4_StopTerminatesWorker == StopCalled ~> WorkerDone


\* ---- the current connection
IsPrefix(a, b) ==
    /\ Len(a) <= Len(b)
    /\ \A i \in 1..Len(a) : a[i] = b[i]

\* the frames the streaming loop wrote to the current client
QueueFrames == SelectSeq(wire, LAMBDA f : f.via = "queue")

\* f is the frame of packet p, or its header when the send was cut short
FrameOf(f, p) ==
    /\ f.hdr = PacketHeader(p)
    /\ f.data = IF f.full THEN p.data ELSE <<>>

\* C1: the packet frames written to a client after the codec header and the
\* cached-config frame are, in order, a prefix of the frames of the packets
\* pushed after that client's accept completed; no packet queued during an
\* earlier client's session reaches a later client.
C1_FramesArePushedSinceAccept ==
    /\ Len(QueueFrames) <= Len(pushedSince)
    /\ \A i \in 1..Len(QueueFrames) :
          i <= Len(pushedSince) =>
              /\ QueueFrames[i].seq = pushedSince[i].n
              /\ FrameOf(QueueFrames[i], pushedSince[i].p)

\* the header carries the CONFIG flag and nothing else
OnlyConfigBit(hdr) ==
    \A k \in 0..63 : HdrBit(hdr, k) = (IF k = 63 THEN 1 ELSE 0)

\* C2: a client that connects after a no-timestamp packet c was pushed
\* receives, directly after the codec header, a frame with only bit 63 set
\* whose payload is that of c (or of a no-timestamp packet pushed later
\* still, the cache holding the latest one).
C2_NewClientGetsCachedConfig ==
    (cfgAtAccept # NoPkt /\ Len(wire) >= 2) =>
        /\ OnlyConfigBit(wire[2].hdr)
        /\ \E c \in cfgSeen : FrameOf(wire[2], c)

\* a step that ends a push (push returns)
PushReturns ==
    \/ npush' = npush + 1 /\ ppc' = "idle"
    \/ ppc = "enq" /\ ppc' = "idle"
\* a step inside push
PushStep == npush' = npush + 1 \/ ppc # ppc'

C5_EveryCopyFreedOnce ==
    /\ \A h \in DOMAIN heap : heap[h].frees <= 1
    /\ life = "destroyed" => \A h \in DOMAIN heap : heap[h].frees = 1

C5_Witness ==
    /\ life = "destroyed"
    /\ nstop > 0
    /\ Len(heap) = 4
    /\ wire # <<>>

\* C6: a push made before an open has succeeded, in particular after an
\* open that failed, returns failure.
C6_PushBeforeOpenFails ==
    (ret # "none" /\ ~codec_sent) => ret = "false"

\* big-endian 32-bit field at bytes off+1..off+4
Be32(hdr, off) ==
    ((hdr[off + 1] * 256 + hdr[off + 2]) * 256 + hdr[off + 3]) * 256
    + hdr[off + 4]
\* "h264" and "h265" in ASCII
AsciiTag(codec_id) ==
    IF codec_id = "H264" THEN <<104, 50, 54, 52>> ELSE <<104, 50, 54, 53>>

\* C7: nothing is written to a client before an open has succeeded; the
\* first thing written on a connection is the 12-byte codec header with the
\* tag, width and height of that open, written once; an open with another
\* codec than H.264/HEVC does not succeed and makes no header be sent.
C7_HeaderFirstAfterOpen ==
    /\ okOpen # NoCtx => okOpen.codec_id \in {"H264", "HEVC"}
    /\ okOpen = NoCtx => ~codec_sent
    /\ wire # <<>> =>
          /\ okOpen # NoCtx
          /\ wire[1].via = "codec"
          /\ Len(wire[1].hdr) = 12
          /\ SubSeq(wire[1].hdr, 1, 4) = AsciiTag(okOpen.codec_id)
          /\ Be32(wire[1].hdr, 4) = okOpen.width
          /\ Be32(wire[1].hdr, 8) = okOpen.height
    /\ \A i \in 2..Len(wire) : wire[i].via # "codec"

\* a client accepted before open, after an open that failed, has got its
\* header
C7_Witness ==
    /\ wpc = "rdcfgB"
    /\ nfailopen > 0
    /\ Len(wire) = 1
    /\ okOpen.codec_id = "HEVC"

\* C10: once stopped is set, every push returns failure and changes neither
\* the queue nor config_packet; close only sets stopped and signals, and a
\* second close changes nothing.
C10_PushAfterStop ==
    [][/\ (stopped /\ PushStep) =>
            /\ ret' = "false"
            /\ ppc' = "idle"
            /\ UNCHANGED <<queue, config_packet, heap>>
       /\ Close =>
            /\ stopped'
            /\ ~waiting'
            /\ UNCHANGED <<server_socket, client_socket, codec_sent, codec,
                           queue, config_packet, heap, envv, workv>>
       /\ (Close /\ stopped) => UNCHANGED vars
      ]_vars

C10_Witness ==
    /\ stopped
    /\ nstop = 0
    /\ ret = "false"
    /\ npush = 2
    /\ config_packet # NULL
    /\ queue # <<>>

\* ---- C8, C9: the frame header
Framed == fwire # <<>>
NoTimestamp(p) == p.pts = AV_NOPTS_VALUE
\* 0 <= pts < 2^62
Below2p62(p) == p.pts[4] < 16384
\* 0 <= pts < 2^63
NonNegative(p) == p.pts[4] < 32768
LowBitsAre(hdr, t, n) == \A k \in 0..(n - 1) : HdrBit(hdr, k) = Bit(t, k)
PayloadOf(bytes) == SubSeq(bytes, 13, Len(bytes))

\* C8: a keyframe with timestamp t, 0 <= t < 2^62, is framed with bit 62
\* set, bit 63 clear and t in the lower 62 bits; a non-keyframe with both
\* bits clear and t in the lower 62 bits; the length field is the payload
\* size, also when it is 0, and the payload follows.
C8_TimestampedFrame ==
    (Framed /\ ~NoTimestamp(fpkt) /\ Below2p62(fpkt)) =>
        /\ HdrBit(fwire, 63) = 0
        /\ HdrBit(fwire, 62) = (IF fpkt.key THEN 1 ELSE 0)
        /\ LowBitsAre(fwire, fpkt.pts, 62)
        /\ HdrLen(fwire) = Len(fpkt.data)
        /\ PayloadOf(fwire) = fpkt.data

C8_Witness ==
    /\ Framed
    /\ fpkt.key
    /\ fpkt.pts = <<65535, 1, 65535, 16383>>
    /\ fpkt.data = <<>>
    /\ Len(fwire) = 12

\* C9 as claimed: whatever the 64-bit timestamp, bit 63 is set exactly when
\* the packet has no timestamp, and then all other bits are zero.
C9_ConfigBitAnyTimestamp ==
    Framed =>
        /\ (HdrBit(fwire, 63) = 1) <=> NoTimestamp(fpkt)
        /\ HdrBit(fwire, 63) = 1 => \A k \in 0..62 : HdrBit(fwire, k) = 0

\* C9 as amended: for a packet without timestamp or with a timestamp
\* 0 <= t < 2^63, bit 63 is set exactly when the packet has no timestamp,
\* and then all other bits are zero.
C9_ConfigBitNonNegative ==
    (Framed /\ (NoTimestamp(fpkt) \/ NonNegative(fpkt))) =>
        /\ (HdrBit(fwire, 63) = 1) <=> NoTimestamp(fpkt)
        /\ HdrBit(fwire, 63) = 1 => \A k \in 0..62 : HdrBit(fwire, k) = 0

C9_Witness ==
    /\ Framed
    /\ NoTimestamp(fpkt)
    /\ fpkt.key
    /\ HdrBit(fwire, 63) = 1

\* ---- C11: setup errors
\* run_tcp_sink returned from line 106 or line 113
SetupFailed ==
    /\ wpc = "done"
    /\ srv = "none" \/ (srv = "closed" /\ server_socket # SC_SOCKET_NONE)
\* run_control_forwarder returned from line 19 or line 26
FSetupFailed ==
    /\ fpc = "done"
    /\ \/ fsrv.state = "none"
       \/ fsrv.state = "closed" /\ forwarder.server_socket # SC_SOCKET_NONE

\* C11: in the video sink and in the control forwarder, when creating the
\* server socket, binding or listening fails, start has returned failure to
\* its caller.
C11_SetupFailureFailsStart ==
    /\ SetupFailed => life = "startfailed"
    /\ FSetupFailed => flife = "startfailed"

\* ---- C12: the relay
\* all the bytes client k has written: its first n messages
RECURSIVE Messages(_, _)
Messages(k, n) == IF n = 0 THEN <<>> ELSE Messages(k, n - 1) \o Msg(k, n)
SentBy(k) == Messages(k, fcli[k].nw)

\* the bytes of client k that net_recv has returned
ConsumedOf(k) == SubSeq(SentBy(k), 1, Len(SentBy(k)) - Len(fcli[k].inbox))

\* the same for clients 1..k, in connection order
RECURSIVE ConsumedUpTo(_)
ConsumedUpTo(k) ==
    IF k = 0 THEN <<>> ELSE ConsumedUpTo(k - 1) \o ConsumedOf(k)

\* C12: as long as no downstream send was cut short, the bytes written to
\* controller->control_socket are a prefix of the bytes received from the
\* clients, taken in connection order and then in receive order; what is
\* missing is exactly the chunk in buffer that is still to be sent.
C12_RelayIsPrefix ==
    ~sendFailed =>
        /\ IsPrefix(downstream, ConsumedUpTo(Len(fcli)))
        /\ downstream \o buffer = ConsumedUpTo(Len(fcli))

\* client 1 wrote 265 bytes and left, client 2 wrote 5; all of it arrived
C12_Witness ==
    /\ ~sendFailed
    /\ Len(fcli) = 2
    /\ fcli[1].nw = 2
    /\ fcli[1].peer = "eof"
    /\ fcli[2].nw = 1
    /\ downstream = SentBy(1) \o SentBy(2)
    /\ Len(downstream) = 270

\* ---- C13: termination of the forwarder
FStopCalled == fspc # "idle" \/ fnstop > 0
FWorkerDone == fpc = "done"

\* C13: after sc_control_forwarder_stop has been called on a started
\* forwarder, the worker thread eventually terminates, whether it is blocked
\* in accept, in recv or in send_all to the control socket, and however stop
\* interleaves with the worker's accept and its store to client_socket.
C13_StopTerminatesForwarder == FStopCalled ~> FWorkerDone

\* ---- C14: a second stop
\* a step of sc_control_forwarder_stop
FStopStep == FStop1 \/ FStop2 \/ FStop3

\* C14: a call of stop made after a first call has returned, at any point
\* before join, has no effect: stopped stays true and no socket is closed or
\* interrupted again.
C14_SecondStopHasNoEffect ==
    [][(fnstop >= 1 /\ FStopStep) =>
            /\ forwarder'.stopped
            /\ UNCHANGED <<forwarder, fsrv, fcli>>
      ]_vars

\* ---- C15: a client that went away
\* the worker is in its streaming loop (lines 194-215) for a client that has
\* closed its end, and the sink is not stopped
ServingGoneClient ==
    /\ wpc \in {"serve", "lockq", "sendpkt"}
    /\ conn.open
    /\ conn.broken
    /\ ~stopped
\* the worker closed the client and is back at accept
BackToListening ==
    /\ client_socket = SC_SOCKET_NONE
    /\ ~conn.open
    /\ wpc \in {"loop", "accept"}

\* C15: while the sink serves a client and is not stopped, a send failure or
\* the client closing its end eventually makes the worker close the client
\* socket, set client_socket to none and return to accepting.
C15_GoneClientIsDropped == ServingGoneClient ~> (BackToListening \/ stopped)

\* ---- C16: one client at a time
\* the accepted connections of the forwarder whose handle was never closed
FOpenClients == {k \in DOMAIN fcli : fcli[k].closes = 0}

\* C16: in each component at most one accepted connection is open at any
\* time: the worker is in accept only while client_socket is none and no
\* accepted connection is open, and an open connection is the one the worker
\* holds in client_socket (or, between accept and the store, in its local).
C16_OneClientAtATime ==
    /\ wpc = "accept" => client_socket = SC_SOCKET_NONE /\ ~conn.open
    /\ conn.open => \/ client_socket = nconn
                    \/ wpc = "assign" /\ acc = nconn
    /\ fpc = "accept" =>
          forwarder.client_socket = SC_SOCKET_NONE /\ FOpenClients = {}
    /\ Cardinality(FOpenClients) <= 1
    /\ \A k \in FOpenClients :
          \/ forwarder.client_socket = k
          \/ fpc = "assign" /\ facc = k

\* the forwarder is back in accept after its second client
C16_Witness ==
    /\ fpc = "accept"
    /\ Len(fcli) = 2
    /\ fcli[1].closes = 1
    /\ fcli[2].closes = 1
    /\ ~forwarder.stopped

\* ---- C17: the cached config packet
\* C17: whenever the worker sends the cached config packet to a new client
\* (lines 150 and 182), the handle it sends through is still live: push has
\* not freed it.
C17_CachedConfigIsLive ==
    [][WSendConfig =>
            /\ config_pkt # NULL
            /\ heap[config_pkt].frees = 0
      ]_vars

\* ---- C18: the end of the worker
\* every copy made for the queue has been freed
QueueCopiesFreed(hp) ==
    \A h \in DOMAIN hp : hp[h].seq > 0 => hp[h].frees = 1

\* C18: when the worker terminates after stop was called, the queue is
\* empty, every queued copy has been freed, server_socket and client_socket
\* are both none; clearing the queue writes nothing to the client; and no
\* later push adds a packet to the queue.
C18_TerminatedAfterStop ==
    [][/\ (StopCalled /\ wpc # "done" /\ wpc' = "done") =>
            /\ queue' = <<>>
            /\ QueueCopiesFreed(heap')
            /\ server_socket' = SC_SOCKET_NONE
            /\ client_socket' = SC_SOCKET_NONE
       /\ WCleanup => wire' = wire
       /\ (wpc = "done" /\ stopped /\ PushStep) => queue' = queue
      ]_vars

\* ---- C19: closing the forwarder's sockets
\* C19: the control forwarder closes each of its socket handles, the server
\* socket and every accepted client socket, at most once.
C19_HandlesClosedOnce ==
    /\ fsrv.closes <= 1
    /\ \A k \in DOMAIN fcli : fcli[k].closes <= 1

\* ---- C20: queued packets reach the client
\* the copy made by push number n is in the queue
Enqueued(n) == \E i \in DOMAIN queue : heap[queue[i]].seq = n
\* the streaming loop wrote the frame of push number n to the client
Written(n) ==
    \E i \in DOMAIN wire : wire[i].via = "queue" /\ wire[i].seq = n

\* C20: while the client stays connected, the sink is not stopped and sends
\* succeed, every packet that push enqueues is eventually written to the
\* client.
C20_EnqueuedIsWritten ==
    \A n \in 1..MaxPush : Enqueued(n) ~> (Written(n) \/ stopped \/ ~CanSend)

====
